---- MODULE Spec2Model ----
(***************************************************************************)
(* Video journal: the zustand video store (store/videoStore.ts), the media *)
(* gateway wrappers (services/videoService.ts), the useVideoOperations     *)
(* hook (hooks/useVideoOperations.ts) and the screen handlers that call    *)
(* them (screens/VideoCreateScreen.tsx, VideoEditScreen.tsx, the details   *)
(* screen).                                                                *)
(*                                                                         *)
(* JavaScript runs the handlers on one thread: a handler runs from its     *)
(* entry (or from the await that resumed it) to its next await without     *)
(* interruption.  Each action below is one such uninterrupted stretch.     *)
(***************************************************************************)
EXTENDS Integers, Sequences, FiniteSets, TLC

\* ---------------------------------------------------------------- bounds
\* Date.now() values run over 0..MaxClock.
MaxClock == 1
\* Number of workflow invocations (mutate calls) followed in one behaviour.
MaxWf == 2
\* Number of direct store calls followed in one behaviour of SpecStore.
MaxCalls == 3
\* The ids of the records passed to the store in SpecStore are "0"..MaxId.
MaxId == 2
\* Number of pickVideo calls followed in one behaviour of SpecPick.
MaxPicks == 2
\* Length of the longest video, in seconds.
MaxVideoSeconds == 7

\* ------------------------------------------------------------ input sets
\* null / undefined of the source; the code only tests them for truthiness.
Null == "null"
Undefined == [undefined |-> TRUE]
Truthy(s) == s # Null /\ s # ""

\* FileSystem.documentDirectory
documentDirectory == "doc/"
\* Locator returned by the image picker.
PickedUris == {"picked.mov"}
\* What a caller can pass as title, description and (startTime, endTime).
Forms ==
    {[name |-> "Clip", description |-> "", range |-> <<0, 5>>],
     [name |-> "", description |-> "memo", range |-> <<1, 3>>]}

VARIABLES
    videos,            \* videoStore.ts: state.videos
    clock,             \* the value Date.now() returns
    wf,                \* the invocations of the two mutationFn's
    isLoading,         \* useVideoOperations: useState(false)
    error,             \* useVideoOperations: useState(null)
    cropCurrent,       \* invocation cropVideoMutation reports on (0: none)
    editCurrent,       \* invocation editVideoMutation reports on (0: none)
    selectedVideoUri,  \* VideoCreateScreen: useState(null)
    calls,             \* history: the calls made in SpecStore, SpecPick
    mirror,            \* the snapshot under 'video-storage' and the writes
                       \* on their way to it (followed in SpecPersist)
    ui                 \* the screen that is open, its state and the state of
                       \* its VideoTrimmer (followed in SpecTrim, SpecEdit)

vars == <<videos, clock, wf, isLoading, error, cropCurrent, editCurrent,
          selectedVideoUri, calls, mirror, ui>>

W == 1..MaxWf

\* --------------------------------------------------------------- helpers
Min(S) == CHOOSE x \in S : \A y \in S : x <= y

\* types.ts: VideoItem
VideoItem(id, uri, name, description, duration, createdAt, thumbnailUri) ==
    [id |-> id, uri |-> uri, name |-> name, description |-> description,
     duration |-> duration, createdAt |-> createdAt,
     thumbnailUri |-> thumbnailUri]

\* ------------------------------------------------------ store/videoStore
\* Mutant of addVideo: the record is put at the end.
addVideoAtEnd(vs, video) == vs \o <<video>>

\* addVideo: videos: [video, ...state.videos]
addVideo(vs, video) == <<video>> \o vs

\* Mutant of updateVideo: the matching records are dropped and the updated
\* record is put at the front.
SameId(id, v) == v.id = id
updateVideoToFront(vs, updatedVideo) ==
    IF \E i \in DOMAIN vs : vs[i].id = updatedVideo.id
    THEN <<updatedVideo>> \o SelectSeq(vs, LAMBDA v : ~SameId(updatedVideo.id, v))
    ELSE vs

\* Mutant of updateVideo: the files and the duration are written into the
\* record found, which keeps its name and description.
updateVideoPatch(vs, updatedVideo) ==
    [i \in DOMAIN vs |->
        IF vs[i].id = updatedVideo.id
        THEN [vs[i] EXCEPT !.uri = updatedVideo.uri,
                           !.duration = updatedVideo.duration,
                           !.thumbnailUri = updatedVideo.thumbnailUri]
        ELSE vs[i]]

\* Mutant of updateVideo: a record whose id matches nothing is inserted.
updateVideoUpsert(vs, updatedVideo) ==
    IF \E i \in DOMAIN vs : vs[i].id = updatedVideo.id
    THEN [i \in DOMAIN vs |-> IF vs[i].id = updatedVideo.id THEN updatedVideo ELSE vs[i]]
    ELSE <<updatedVideo>> \o vs

\* updateVideo: state.videos.map(v => v.id === updatedVideo.id ? updatedVideo : v)
updateVideo(vs, updatedVideo) ==
    [i \in DOMAIN vs |-> IF vs[i].id = updatedVideo.id THEN updatedVideo ELSE vs[i]]

\* removeVideo: state.videos.filter(v => v.id !== id)
KeepOther(id, v) == v.id # id

\* Mutant of removeVideo: the records in front of the first one with the id
\* go with it (slice from the index found).
removeVideoUpTo(vs, id) ==
    IF \E i \in DOMAIN vs : vs[i].id = id
    THEN LET k == Min({i \in DOMAIN vs : vs[i].id = id})
         IN SelectSeq(SubSeq(vs, k + 1, Len(vs)), LAMBDA v : KeepOther(id, v))
    ELSE vs

\* Mutant of removeVideo: only the first record with the id is removed
\* (findIndex and splice).
removeVideoFirst(vs, id) ==
    IF \E i \in DOMAIN vs : vs[i].id = id
    THEN LET k == Min({i \in DOMAIN vs : vs[i].id = id})
         IN SubSeq(vs, 1, k - 1) \o SubSeq(vs, k + 1, Len(vs))
    ELSE vs

removeVideo(vs, id) == SelectSeq(vs, LAMBDA v : KeepOther(id, v))

\* Mutant of getVideoById: the first record stands in for a missing one.
getVideoByIdOrFirst(vs, id) ==
    IF \E i \in DOMAIN vs : vs[i].id = id
    THEN vs[Min({i \in DOMAIN vs : vs[i].id = id})]
    ELSE IF vs # <<>> THEN vs[1] ELSE Undefined

\* getVideoById: get().videos.find(v => v.id === id)
getVideoById(vs, id) ==
    IF \E i \in DOMAIN vs : vs[i].id = id
    THEN vs[Min({i \in DOMAIN vs : vs[i].id = id})]
    ELSE Undefined

\* ------------------------------------------------- services/videoService
\* cropVideo: outputPath = `${outputDir}${outputFileName}.mp4`
outputPath(outputFileName) ==
    documentDirectory \o "videos/" \o outputFileName \o ".mp4"

\* generateThumbnail: thumbnailPath = `${thumbnailDir}${Date.now()}.jpg`
thumbnailPath(now) ==
    documentDirectory \o "thumbnails/" \o ToString(now) \o ".jpg"

\* -------------------------------------------- hooks/useVideoOperations
\* An invocation of a mutationFn that has not been made yet.
NoWorkflow ==
    [kind |-> "none", pc |-> "idle", origin |-> "none",
     videoId |-> Null, videoUri |-> Null, startTime |-> 0, endTime |-> 0,
     name |-> "", description |-> "",
     existingVideo |-> Undefined, outputFileName |-> Null,
     croppedVideoUri |-> Null, thumbnailInput |-> Null, thumbnailUri |-> Null,
     result |-> Undefined, mutationError |-> Null, rejection |-> "none",
     trimCalls |-> 0, thumbnailCalls |-> 0]

\* The variables of a mutate call.
Variables(videoId, videoUri, form) ==
    [videoId |-> videoId, videoUri |-> videoUri,
     startTime |-> form.range[1], endTime |-> form.range[2],
     name |-> form.name, description |-> form.description]

\* The four states of section 4.2 of the design.
Status(w) ==
    CASE wf[w].pc = "idle" -> "IDLE"
      [] wf[w].pc \in {"awaitCrop", "awaitThumbnail"} -> "PROCESSING"
      [] wf[w].pc = "success" -> "SUCCESS"
      [] wf[w].pc = "failed" -> "FAILED"

\* The next invocation: slots are taken in order.
NextSlot(w) == wf[w].pc = "idle" /\ \A u \in W : u < w => wf[u].pc # "idle"

\* Mutant of newVideo: the duration is endTime alone.
newVideoDurationEnd(w, idNow, createdNow) ==
    VideoItem(ToString(idNow), wf[w].croppedVideoUri, wf[w].name,
              wf[w].description, wf[w].endTime,
              createdNow, wf[w].thumbnailUri)

\* cropVideoMutation.mutationFn: newVideo
newVideo(w, idNow, createdNow) ==
    VideoItem(ToString(idNow), wf[w].croppedVideoUri, wf[w].name,
              wf[w].description, wf[w].endTime - wf[w].startTime,
              createdNow, wf[w].thumbnailUri)

\* editVideoMutation.mutationFn: updatedVideo = {...existingVideo, uri, ...}
updatedVideo(w) ==
    [wf[w].existingVideo EXCEPT
        !.uri = wf[w].croppedVideoUri,
        !.name = wf[w].name,
        !.description = wf[w].description,
        !.duration = wf[w].endTime - wf[w].startTime,
        !.thumbnailUri = wf[w].thumbnailUri]

\* The message setError receives in the catch block of each mutationFn.
CatchMessage(kind) ==
    IF kind = "create" THEN "An error occurred during video processing"
    ELSE "An error occurred during video editing"

\* An invocation whose mutationFn has returned or thrown: its locals are gone,
\* the mutation keeps the id it was asked to edit and its data or its error.
Settled(w, pc, result, message) ==
    [NoWorkflow EXCEPT
        !.kind = wf[w].kind, !.origin = wf[w].origin, !.pc = pc,
        !.videoId = wf[w].videoId,
        !.result = result, !.mutationError = message,
        !.trimCalls = wf[w].trimCalls, !.thumbnailCalls = wf[w].thumbnailCalls]

\* The hook hands out cropVideoMutation.mutate and editVideoMutation.mutate.
\* The promise of a mutationFn that throws is rejected: mutate catches the
\* rejection and keeps the error in the mutation, mutateAsync hands the
\* rejected promise to the caller.
mutate == "mutate"
Rejection(api) == IF api = "mutate" THEN "caught" ELSE "uncaught"

\* Mutant of Throw: the catch block rethrows without calling setError.
ThrowWithoutSetError(w, message) ==
    /\ wf' = [wf EXCEPT ![w] =
                [Settled(w, "failed", Undefined, message)
                    EXCEPT !.rejection = Rejection(mutate)]]
    /\ error' = error
    /\ isLoading' = FALSE
    /\ videos' = videos

\* Mutant of Throw: there is no finally block, the loading flag stays up.
ThrowKeepsLoading(w, message) ==
    /\ wf' = [wf EXCEPT ![w] =
                [Settled(w, "failed", Undefined, message)
                    EXCEPT !.rejection = Rejection(mutate)]]
    /\ error' = CatchMessage(wf[w].kind)
    /\ isLoading' = isLoading
    /\ videos' = videos

\* Mutant of Throw: the failed mutationFn is run once more.
ThrowRetry(w, message) ==
    /\ wf' = IF wf[w].trimCalls = 1
             THEN [wf EXCEPT ![w].pc = "awaitCrop", ![w].trimCalls = 2]
             ELSE [wf EXCEPT ![w] =
                     [Settled(w, "failed", Undefined, message)
                         EXCEPT !.rejection = Rejection(mutate)]]
    /\ error' = CatchMessage(wf[w].kind)
    /\ isLoading' = (wf[w].trimCalls = 1)
    /\ videos' = videos

\* Mutant of Throw: the catch block marks the invocation failed but a create
\* has already added its record.
ThrowAfterAdd(w, message) ==
    /\ wf' = [wf EXCEPT ![w] = Settled(w, "failed", Undefined, message)]
    /\ error' = CatchMessage(wf[w].kind)
    /\ isLoading' = FALSE
    /\ videos' = addVideo(videos, VideoItem(ToString(clock), wf[w].croppedVideoUri,
                                            wf[w].name, wf[w].description,
                                            wf[w].endTime - wf[w].startTime,
                                            clock, Null))

\* catch { setError(...); throw err } finally { setIsLoading(false) }
Throw(w, message) ==
    /\ wf' = [wf EXCEPT ![w] =
                [Settled(w, "failed", Undefined, message)
                    EXCEPT !.rejection = Rejection(mutate)]]
    /\ error' = CatchMessage(wf[w].kind)
    /\ isLoading' = FALSE
    /\ videos' = videos

\* Mutant of BeginCrop: the record is added when the request is made, before
\* the gateway has produced its files.
BeginCropOptimistic(w, v, op) ==
    /\ NextSlot(w)
    /\ wf' = [wf EXCEPT ![w] =
                [NoWorkflow EXCEPT
                    !.kind = "create", !.pc = "awaitCrop", !.origin = op,
                    !.videoUri = v.videoUri,
                    !.startTime = v.startTime, !.endTime = v.endTime,
                    !.name = v.name, !.description = v.description,
                    !.outputFileName = "video_" \o ToString(clock),
                    !.trimCalls = 1]]
    /\ isLoading' = TRUE
    /\ error' = Null
    /\ cropCurrent' = w
    /\ videos' = addVideo(videos, VideoItem(ToString(clock), v.videoUri, v.name,
                                            v.description,
                                            v.endTime - v.startTime, clock, Null))
    /\ UNCHANGED <<clock, editCurrent, selectedVideoUri, calls, mirror>>

\* cropVideoMutation.mutate(variables): mutationFn up to `await cropVideo`.
BeginCrop(w, v, op) ==
    /\ NextSlot(w)
    /\ wf' = [wf EXCEPT ![w] =
                [NoWorkflow EXCEPT
                    !.kind = "create", !.pc = "awaitCrop", !.origin = op,
                    !.videoUri = v.videoUri,
                    !.startTime = v.startTime, !.endTime = v.endTime,
                    !.name = v.name, !.description = v.description,
                    !.outputFileName = "video_" \o ToString(clock),
                    !.trimCalls = 1]]
    /\ isLoading' = TRUE
    /\ error' = Null
    /\ cropCurrent' = w
    /\ UNCHANGED <<videos, clock, editCurrent, selectedVideoUri, calls, mirror>>

\* editVideoMutation.mutate(variables): mutationFn up to `await cropVideo`,
\* or to its end when getVideoById finds nothing.
BeginEdit(w, v, op) ==
    /\ NextSlot(w)
    /\ LET existingVideo == getVideoById(videos, v.videoId)
           started == [NoWorkflow EXCEPT
                          !.kind = "edit", !.origin = op,
                          !.videoId = v.videoId, !.videoUri = v.videoUri,
                          !.startTime = v.startTime, !.endTime = v.endTime,
                          !.name = v.name, !.description = v.description]
       IN IF existingVideo = Undefined
          THEN /\ wf' = [wf EXCEPT ![w] =
                            [NoWorkflow EXCEPT
                                !.kind = "edit", !.origin = op, !.pc = "failed",
                                !.videoId = v.videoId,
                                !.mutationError = "Video not found",
                                !.rejection = Rejection(mutate)]]
               /\ error' = CatchMessage("edit")
               /\ isLoading' = FALSE
          ELSE /\ wf' = [wf EXCEPT ![w] =
                            [started EXCEPT
                                !.pc = "awaitCrop",
                                !.existingVideo = existingVideo,
                                !.outputFileName = "video_edit_" \o ToString(clock),
                                !.trimCalls = 1]]
               /\ error' = Null
               /\ isLoading' = TRUE
    /\ editCurrent' = w
    /\ UNCHANGED <<videos, clock, cropCurrent, selectedVideoUri, calls, mirror>>

\* Mutant of CropReturns: the thumbnail is taken from the source video, not
\* from the trimmed file.
CropReturnsThumbnailOfSource(w, ok) ==
    /\ wf[w].pc = "awaitCrop"
    /\ IF ok
       THEN /\ wf' = [wf EXCEPT
                        ![w].pc = "awaitThumbnail",
                        ![w].croppedVideoUri = outputPath(wf[w].outputFileName),
                        ![w].thumbnailInput = wf[w].videoUri,
                        ![w].thumbnailUri = thumbnailPath(clock),
                        ![w].thumbnailCalls = 1]
            /\ UNCHANGED <<error, isLoading, videos>>
       ELSE Throw(w, "Video trimming process failed")
    /\ UNCHANGED <<clock, cropCurrent, editCurrent, selectedVideoUri, calls, mirror, ui>>

\* `await cropVideo(...)` settles: on success generateThumbnail is called with
\* the trimmed file and runs up to its first await; on failure the catch and
\* finally blocks run.
CropReturns(w, ok) ==
    /\ wf[w].pc = "awaitCrop"
    /\ IF ok
       THEN /\ wf' = [wf EXCEPT
                        ![w].pc = "awaitThumbnail",
                        ![w].croppedVideoUri = outputPath(wf[w].outputFileName),
                        ![w].thumbnailInput = outputPath(wf[w].outputFileName),
                        ![w].thumbnailUri = thumbnailPath(clock),
                        ![w].thumbnailCalls = 1]
            /\ UNCHANGED <<error, isLoading, videos>>
       ELSE Throw(w, "Video trimming process failed")
    /\ UNCHANGED <<clock, cropCurrent, editCurrent, selectedVideoUri, calls, mirror, ui>>

\* `await generateThumbnail(...)` settles: on success the record is built and
\* committed; Date.now() is read for id and again for createdAt, and the clock
\* may advance by `skew` between the two reads.
ThumbnailReturns(w, ok, skew) ==
    /\ wf[w].pc = "awaitThumbnail"
    /\ clock + skew <= MaxClock
    /\ skew \in (IF ok /\ wf[w].kind = "create" THEN {0, 1} ELSE {0})
    /\ IF ok
       THEN LET record == IF wf[w].kind = "create"
                          THEN newVideo(w, clock, clock + skew)
                          ELSE updatedVideo(w)
            IN /\ videos' = IF wf[w].kind = "create"
                            THEN addVideo(videos, record)
                            ELSE updateVideo(videos, record)
               /\ wf' = [wf EXCEPT ![w] = Settled(w, "success", record, Null)]
               /\ clock' = IF wf[w].kind = "create" THEN clock + skew ELSE clock
               /\ isLoading' = FALSE
               /\ UNCHANGED error
       ELSE /\ Throw(w, "Thumbnail creation process failed")
            /\ UNCHANGED clock
    /\ UNCHANGED <<cropCurrent, editCurrent, selectedVideoUri, calls, mirror, ui>>

\* The value useVideoOperations returns as `error`.
ExposedError ==
    IF Truthy(error) THEN error
    ELSE IF cropCurrent # 0 /\ Truthy(wf[cropCurrent].mutationError)
         THEN wf[cropCurrent].mutationError
    ELSE IF editCurrent # 0 THEN wf[editCurrent].mutationError
    ELSE Null

\* The value useVideoOperations returns as `isLoading`: isPending of a
\* mutation is that of the latest mutate call, the one its observer follows.
ExposedIsLoading ==
    \/ isLoading
    \/ cropCurrent # 0 /\ wf[cropCurrent].pc \in {"awaitCrop", "awaitThumbnail"}
    \/ editCurrent # 0 /\ wf[editCurrent].pc \in {"awaitCrop", "awaitThumbnail"}

\* Time passes.
Tick ==
    /\ clock < MaxClock
    /\ clock' = clock + 1
    /\ UNCHANGED <<videos, wf, isLoading, error, cropCurrent, editCurrent,
                   selectedVideoUri, calls, mirror, ui>>

\* ------------------------------------------------------------- screens
\* Mutant of validateForm: a name of 51 characters passes.
validateFormOffByOne(name, description) ==
    /\ Len(name) >= 1
    /\ Len(name) <= 51
    /\ Len(description) <= 500

\* VideoCreateScreen / VideoEditScreen: videoFormSchema.parse({name, description})
validateForm(name, description) ==
    /\ Len(name) >= 1
    /\ Len(name) <= 50
    /\ Len(description) <= 500

\* The ids Date.now().toString() can produce.
VideoIds == {ToString(t) : t \in 0..MaxClock}

\* VideoCreateScreen.handleSelectVideo, with pickVideo of the hook inlined.
PickOutcomes == {"denied", "canceled", "picked", "threw"}
\* The outcomes in which pickVideo leaves the hook's state alone.
PickedOrCanceled == {"canceled", "picked"}
\* Mutant of pickVideo: the denial is reported but the picker is opened all
\* the same and its locator returned.
pickVideoAfterDenial(outcome, uri) ==
    [setError |-> CASE outcome = "denied" ->
                         <<"Permission to access videos was denied">>
                    [] outcome = "threw" ->
                         <<"An error occurred while selecting video">>
                    [] OTHER -> <<>>,
     result |-> IF outcome \in {"picked", "denied"} /\ Truthy(uri) THEN uri
                ELSE Null]

\* pickVideo of the hook: the setError calls it makes and the value it returns.
pickVideo(outcome, uri) ==
    [setError |-> CASE outcome = "denied" ->
                         <<"Permission to access videos was denied">>
                    [] outcome = "threw" ->
                         <<"An error occurred while selecting video">>
                    [] OTHER -> <<>>,
     result |-> IF outcome = "picked" /\ Truthy(uri) THEN uri ELSE Null]

\* Whether launchImageLibraryAsync was called: not after a denial; an
\* exception comes from the permission request or from the picker.
PickerLaunched(outcome) ==
    CASE outcome = "denied" -> {FALSE}
      [] outcome = "threw" -> BOOLEAN
      [] OTHER -> {TRUE}

SelectVideo(outcome, uri) ==
    LET picked == pickVideo(outcome, uri)
    IN /\ error' = IF picked.setError = <<>> THEN error ELSE picked.setError[1]
       /\ selectedVideoUri' = IF Truthy(picked.result) THEN picked.result
                              ELSE selectedVideoUri
       /\ UNCHANGED <<videos, clock, wf, isLoading, cropCurrent, editCurrent,
                      mirror>>

handleSelectVideo(outcome, uri) ==
    /\ SelectVideo(outcome, uri)
    /\ UNCHANGED <<calls, ui>>

\* handleSelectVideo, with the pickVideo call kept in the history.
handleSelectVideoLogged(outcome, uri, launched) ==
    /\ Len(calls) < MaxPicks
    /\ launched \in PickerLaunched(outcome)
    /\ SelectVideo(outcome, uri)
    /\ calls' = Append(calls, [op |-> "pickVideo", outcome |-> outcome,
                                 launched |-> launched,
                                 result |-> pickVideo(outcome, uri).result])
    /\ UNCHANGED ui

\* Mutant of handleCropVideo: the `if (!selectedVideoUri) return` is missing.
handleCropVideoUnguarded(w, form) ==
    /\ BeginCrop(w, Variables(Null, selectedVideoUri, form), "handleCropVideo")
    /\ UNCHANGED ui

\* VideoCreateScreen.handleCropVideo: the onPress of the "Save Video" button,
\* with `form` in the screen's name, description, startTime and endTime.
handleCropVideo(w, form) ==
    /\ Truthy(selectedVideoUri)
    /\ BeginCrop(w, Variables(Null, selectedVideoUri, form), "handleCropVideo")
    /\ UNCHANGED ui

\* VideoEditScreen.handleUpdateVideo: the onPress of the "Update" button of the
\* screen opened for videoId.
handleUpdateVideo(w, videoId, form) ==
    LET videoData == getVideoById(videos, videoId)
    IN /\ validateForm(form.name, form.description)
       /\ videoData # Undefined
       /\ BeginEdit(w, Variables(videoId, videoData.uri, form), "handleUpdateVideo")
       /\ UNCHANGED ui

\* editVideo of the hook, called by any other caller with any variables.
editVideo(w, videoId, videoUri, form) ==
    /\ BeginEdit(w, Variables(videoId, videoUri, form), "editVideo")
    /\ UNCHANGED ui

\* VideoDetailsScreen.handleDeleteVideo, "Delete" confirmed: the screen shows
\* the button only for a video it found.
handleDeleteVideo(videoId) ==
    /\ getVideoById(videos, videoId) # Undefined
    /\ videos' = removeVideo(videos, videoId)
    /\ UNCHANGED <<clock, wf, isLoading, error, cropCurrent, editCurrent,
                   selectedVideoUri, calls, mirror, ui>>

\* ----------------------------------------------- components/VideoTrimmer
\* durationMillis / 1000 is not a whole number of seconds: the times of the
\* trimmer, and the startTime and endTime a screen gets from it, are counted
\* in half seconds.
TicksPerSecond == 2
Seconds(n) == n * TicksPerSecond
\* Math.floor of a time.
Floor(t) == (t \div TicksPerSecond) * TicksPerSecond

\* The shortest and the longest clip the handlers of the sliders accept, and
\* the endTime of a trimmer that has not yet seen its video, in seconds.
MinClip == 1
MaxClip == 5
InitialEndTime == 5

\* status.durationMillis / 1000 of the videos: half a second, half the
\* longest video, the longest video.
VideoDurations ==
    {1, Seconds(MaxVideoSeconds) \div 2, Seconds(MaxVideoSeconds)}

\* No trimmer is shown.
NoTrimmer ==
    [mounted |-> FALSE, videoDuration |-> 0, startTime |-> 0, endTime |-> 0]
\* useState(0), useState(0), useState(5)
MountedTrimmer ==
    [mounted |-> TRUE, videoDuration |-> 0, startTime |-> 0,
     endTime |-> Seconds(InitialEndTime)]

\* The values a <Slider minimumValue maximumValue step> hands to
\* onValueChange: the steps from the minimum and the maximum itself; of a
\* slider whose maximum is below its minimum, the minimum.
SliderValues(minimumValue, maximumValue, step) ==
    IF maximumValue < minimumValue THEN {minimumValue}
    ELSE {minimumValue + k * step :
             k \in 0..((maximumValue - minimumValue) \div step)}
         \cup {maximumValue}

\* handlePlaybackStatusUpdate of a status with durationMillis, the first time.
playbackStatusUpdate(t, durationInSeconds) ==
    [t EXCEPT !.videoDuration = durationInSeconds,
              !.endTime = Min({Seconds(InitialEndTime), durationInSeconds})]

\* handleStartTimeChange(value)
startTimeChange(t, value) ==
    LET newStartTime == Floor(value)
        duration == t.endTime - newStartTime
    IN IF duration < Seconds(MinClip) THEN t
       ELSE [t EXCEPT !.startTime = newStartTime,
                      !.endTime = IF duration > Seconds(MaxClip)
                                  THEN newStartTime + Seconds(MaxClip) ELSE @]

\* Mutant of endTimeChange: the `if (duration < 1) return` is missing.
endTimeChangeUnchecked(t, value) ==
    LET newEndTime == Floor(value)
        duration == newEndTime - t.startTime
    IN [t EXCEPT !.endTime = newEndTime,
                 !.startTime = IF duration > Seconds(MaxClip)
                               THEN newEndTime - Seconds(MaxClip) ELSE @]

\* handleEndTimeChange(value)
endTimeChange(t, value) ==
    LET newEndTime == Floor(value)
        duration == newEndTime - t.startTime
    IN IF duration < Seconds(MinClip) THEN t
       ELSE [t EXCEPT !.endTime = newEndTime,
                      !.startTime = IF duration > Seconds(MaxClip)
                                    THEN newEndTime - Seconds(MaxClip) ELSE @]

\* ------------------------------------------------- the screens' own state
\* The fields of formErrors that carry a message.
NoErrors == {}
\* validateForm's catch: one entry per field the schema rejects.
ZodErrors(name, description) ==
    (IF Len(name) < 1 \/ Len(name) > 50 THEN {"name"} ELSE {})
    \cup (IF Len(description) > 500 THEN {"description"} ELSE {})

\* No screen with a form is open.
NoScreen ==
    [screen |-> "none", step |-> "none", videoId |-> Null,
     startTime |-> 0, endTime |-> 0, name |-> "", description |-> "",
     formErrors |-> NoErrors, trimmer |-> NoTrimmer]

\* The effect of VideoTrimmer that calls onTimeRangeSelected(startTime,
\* endTime) after the mount and after every change of the two, and
\* handleTimeRangeSelected of the screen: the screen's startTime and endTime
\* follow those of the trimmer.
Reported(u, t) ==
    [u EXCEPT !.trimmer = t, !.startTime = t.startTime, !.endTime = t.endTime]

\* What the screen passes to cropVideo / editVideo.
ScreenForm ==
    [name |-> ui.name, description |-> ui.description,
     range |-> <<ui.startTime, ui.endTime>>]

\* An event of the trimmer that is shown.
TrimmerEvent(t) ==
    /\ ui.trimmer.mounted
    /\ ui' = Reported(ui, t)
    /\ UNCHANGED <<videos, clock, wf, isLoading, error, cropCurrent,
                   editCurrent, selectedVideoUri, calls, mirror>>

handlePlaybackStatusUpdate(durationInSeconds) ==
    /\ ui.trimmer.videoDuration = 0
    /\ TrimmerEvent(playbackStatusUpdate(ui.trimmer, durationInSeconds))

handleStartTimeChange(value) ==
    /\ value \in SliderValues(0, ui.trimmer.videoDuration - Seconds(1), Seconds(1))
    /\ TrimmerEvent(startTimeChange(ui.trimmer, value))

handleEndTimeChange(value) ==
    /\ value \in SliderValues(Seconds(1), ui.trimmer.videoDuration, Seconds(1))
    /\ TrimmerEvent(endTimeChange(ui.trimmer, value))

\* A change of the screen's own state.
ScreenEvent(u) ==
    /\ ui' = u
    /\ UNCHANGED <<videos, clock, wf, isLoading, error, cropCurrent,
                   editCurrent, selectedVideoUri, calls, mirror>>

\* A screen is opened while an invocation is left to start.
SlotLeft == \E w \in W : NextSlot(w)

\* navigation.navigate('Create'): the screen starts at its 'select' step.
OpenCreate ==
    /\ ui.screen = "none"
    /\ SlotLeft
    /\ ui' = [NoScreen EXCEPT !.screen = "create", !.step = "select"]
    /\ selectedVideoUri' = Null
    /\ UNCHANGED <<videos, clock, wf, isLoading, error, cropCurrent,
                   editCurrent, calls, mirror>>

\* handleSelectVideo on the create screen: a picked video leads to the 'trim'
\* step, where the trimmer is mounted.
handleSelectVideoOnScreen(outcome, uri) ==
    /\ ui.screen = "create"
    /\ ui.step = "select"
    /\ SelectVideo(outcome, uri)
    /\ ui' = IF Truthy(pickVideo(outcome, uri).result)
             THEN Reported([ui EXCEPT !.step = "trim"], MountedTrimmer)
             ELSE ui
    /\ UNCHANGED calls

\* navigation.navigate('Edit', {videoId}) for a video of the list: the screen
\* starts at its 'trim' step with the trimmer mounted, name and description
\* are filled from the record.
OpenEdit(videoId) ==
    LET videoData == getVideoById(videos, videoId)
    IN /\ ui.screen = "none"
       /\ SlotLeft
       /\ videoData # Undefined
       /\ ScreenEvent(Reported([NoScreen EXCEPT
                                   !.screen = "edit", !.step = "trim",
                                   !.videoId = videoId,
                                   !.endTime = Seconds(InitialEndTime),
                                   !.name = videoData.name,
                                   !.description = videoData.description],
                               MountedTrimmer))

\* onNext of the trimmer: the 'metadata' step is shown, the trimmer is gone.
onNext ==
    /\ ui.step = "trim"
    /\ ScreenEvent([ui EXCEPT !.step = "metadata", !.trimmer = NoTrimmer])

\* "Back" of the 'metadata' step: the trimmer is mounted anew.
BackToTrim ==
    /\ ui.step = "metadata"
    /\ ScreenEvent(Reported([ui EXCEPT !.step = "trim"], MountedTrimmer))

\* onChangeText of the two inputs of the 'metadata' step.
setName(name) ==
    /\ ui.step = "metadata"
    /\ ScreenEvent([ui EXCEPT !.name = name])

setDescription(description) ==
    /\ ui.step = "metadata"
    /\ ScreenEvent([ui EXCEPT !.description = description])

\* The header's back button: the screen is left and its state is gone.
goBack ==
    /\ ui.screen # "none"
    /\ ScreenEvent(NoScreen)

\* "Save Video" of the create screen's 'metadata' step: handleCropVideo with
\* the screen's state, then navigation.navigate('Home').
handleCropVideoOnScreen(w) ==
    /\ ui.screen = "create"
    /\ ui.step = "metadata"
    /\ Truthy(selectedVideoUri)
    /\ BeginCrop(w, Variables(Null, selectedVideoUri, ScreenForm), "handleCropVideo")
    /\ ui' = NoScreen

\* "Update" of the edit screen's 'metadata' step, disabled while the name is
\* empty or the screen's hook instance is loading (it has started nothing
\* before the press): handleUpdateVideo with the screen's state.
handleUpdateVideoOnScreen(w) ==
    LET videoData == getVideoById(videos, ui.videoId)
    IN /\ ui.screen = "edit"
       /\ ui.step = "metadata"
       /\ ui.name # ""
       /\ IF ~validateForm(ui.name, ui.description)
          THEN /\ NextSlot(w)
               /\ ScreenEvent([ui EXCEPT
                                 !.formErrors = ZodErrors(ui.name, ui.description)])
          ELSE IF videoData = Undefined
          THEN /\ NextSlot(w)
               /\ ScreenEvent([ui EXCEPT !.formErrors = NoErrors])
          ELSE /\ BeginEdit(w, Variables(ui.videoId, videoData.uri, ScreenForm),
                            "handleUpdateVideo")
               /\ ui' = NoScreen

\* ------------------------------------------------------- specification
\* Spec follows the workflows: the picker's failures (permission denied, the
\* picker throwing), which start no workflow, are left to the specification
\* of the picker.
Init ==
    /\ videos = <<>>
    /\ clock = 0
    /\ wf = [w \in W |-> NoWorkflow]
    /\ isLoading = FALSE
    /\ error = Null
    /\ cropCurrent = 0
    /\ editCurrent = 0
    /\ selectedVideoUri = Null
    /\ calls = <<>>
    /\ mirror = [durable |-> <<>>, writes |-> <<>>]
    /\ ui = NoScreen

Next ==
    \/ Tick
    \/ \E outcome \in PickedOrCanceled, uri \in PickedUris :
          handleSelectVideo(outcome, uri)
    \/ \E w \in W, form \in Forms : handleCropVideo(w, form)
    \/ \E w \in W, videoId \in VideoIds, form \in Forms :
          handleUpdateVideo(w, videoId, form)
    \/ \E w \in W, videoId \in VideoIds, videoUri \in PickedUris, form \in Forms :
          editVideo(w, videoId, videoUri, form)
    \/ \E w \in W, ok \in BOOLEAN : CropReturns(w, ok)
    \/ \E w \in W, ok \in BOOLEAN, skew \in {0, 1} : ThumbnailReturns(w, ok, skew)
    \/ \E videoId \in VideoIds : handleDeleteVideo(videoId)

Spec == Init /\ [][Next]_vars

\* Every gateway call returns in the end, with success or with failure: the
\* promise each invocation awaits is settled.
GatewayReturns ==
    \A w \in W :
        /\ WF_vars(\E ok \in BOOLEAN : CropReturns(w, ok))
        /\ WF_vars(\E ok \in BOOLEAN, skew \in {0, 1} : ThumbnailReturns(w, ok, skew))

SpecFair == Spec /\ GatewayReturns

\* ---------------------------------------------- the screens and the trimmer
\* The specifications of the screens start from a store that was filled in an
\* earlier session and loaded at the launch: two records made before the
\* clock of this session started.
StoredVideos ==
    <<VideoItem("-1", outputPath("video_-1"), "Trip", "memo", Seconds(2), -1,
                thumbnailPath(-1)),
      VideoItem("-2", outputPath("video_-2"), "Clip", "", Seconds(5), -2,
                thumbnailPath(-2))>>
StoredIds == {StoredVideos[i].id : i \in DOMAIN StoredVideos}
ScreenIds == StoredIds \cup VideoIds

InitStored ==
    /\ videos = StoredVideos
    /\ clock = 0
    /\ wf = [w \in W |-> NoWorkflow]
    /\ isLoading = FALSE
    /\ error = Null
    /\ cropCurrent = 0
    /\ editCurrent = 0
    /\ selectedVideoUri = Null
    /\ calls = <<>>
    /\ mirror = [durable |-> <<>>, writes |-> <<>>]
    /\ ui = NoScreen

\* SpecTrim follows a trimmer on either screen: the video's duration
\* arriving, the two sliders, and the steps of the screen around it.
NextTrim ==
    \/ OpenCreate
    \/ \E outcome \in PickedOrCanceled, uri \in PickedUris :
          handleSelectVideoOnScreen(outcome, uri)
    \/ \E videoId \in ScreenIds : OpenEdit(videoId)
    \/ \E durationInSeconds \in VideoDurations :
          handlePlaybackStatusUpdate(durationInSeconds)
    \/ \E value \in 0..Seconds(MaxVideoSeconds) : handleStartTimeChange(value)
    \/ \E value \in 0..Seconds(MaxVideoSeconds) : handleEndTimeChange(value)
    \/ onNext
    \/ BackToTrim
    \/ goBack

SpecTrim == InitStored /\ [][NextTrim]_vars

\* SpecScreens follows the two screens from the trimmer to the store: the
\* create screen and the edit screen of the older stored video, the trimmer
\* with a video of half a second or of three seconds, the two buttons
\* that start a workflow with the range the screen got from its trimmer, and
\* the gateway's successes (a workflow that fails writes nothing).
ShortDurations == {1, Seconds(3)}

NextScreens ==
    \/ OpenCreate
    \/ \E outcome \in PickedOrCanceled, uri \in PickedUris :
          handleSelectVideoOnScreen(outcome, uri)
    \/ OpenEdit(StoredVideos[2].id)
    \/ \E durationInSeconds \in ShortDurations :
          handlePlaybackStatusUpdate(durationInSeconds)
    \/ \E value \in 0..Seconds(MaxVideoSeconds) : handleStartTimeChange(value)
    \/ \E value \in 0..Seconds(MaxVideoSeconds) : handleEndTimeChange(value)
    \/ onNext
    \/ BackToTrim
    \/ goBack
    \/ \E w \in W : handleCropVideoOnScreen(w)
    \/ \E w \in W : handleUpdateVideoOnScreen(w)
    \/ \E w \in W : CropReturns(w, TRUE)
    \/ \E w \in W : ThumbnailReturns(w, TRUE, 0)

SpecScreens == InitStored /\ [][NextScreens]_vars

\* SpecForm follows the form of the edit screen: what is typed into the two
\* inputs and the "Update" button, with the range of a trimmer that was left
\* alone; the gateway's answers are not followed.
RECURSIVE Chars(_)
Chars(n) ==
    IF n = 0 THEN ""
    ELSE LET half == Chars(n \div 2)
         IN half \o half \o (IF n % 2 = 1 THEN "x" ELSE "")
TypedNames == {"", "C", Chars(50), Chars(51)}
TypedDescriptions == {"", Chars(500), Chars(501)}

NextForm ==
    \/ \E videoId \in ScreenIds : OpenEdit(videoId)
    \/ onNext
    \/ \E name \in TypedNames : setName(name)
    \/ \E description \in TypedDescriptions : setDescription(description)
    \/ \E w \in W : handleUpdateVideoOnScreen(w)

SpecForm == InitStored /\ [][NextForm]_vars

\* SpecEdit follows edits of the stored records: the edit screen opened for
\* one of them, a new name typed or not, "Update", and the gateway's answers.
EditedNames == {"Cut"}

NextEdit ==
    \/ Tick
    \/ \E videoId \in ScreenIds : OpenEdit(videoId)
    \/ onNext
    \/ \E name \in EditedNames : setName(name)
    \/ \E w \in W : handleUpdateVideoOnScreen(w)
    \/ \E w \in W, ok \in BOOLEAN : CropReturns(w, ok)
    \/ \E w \in W, ok \in BOOLEAN, skew \in {0, 1} : ThumbnailReturns(w, ok, skew)

SpecEdit == InitStored /\ [][NextEdit]_vars

\* ------------------------------------------------ the picker and create
\* SpecPick follows the create screen alone: every outcome of pickVideo, the
\* "Save Video" button and the gateway's answers.
NextPick ==
    \/ \E outcome \in PickOutcomes, uri \in PickedUris, launched \in BOOLEAN :
          handleSelectVideoLogged(outcome, uri, launched)
    \/ \E w \in W, form \in Forms : handleCropVideo(w, form)
    \/ \E w \in W, ok \in BOOLEAN : CropReturns(w, ok)
    \/ \E w \in W, ok \in BOOLEAN, skew \in {0, 1} : ThumbnailReturns(w, ok, skew)

SpecPick == Init /\ [][NextPick]_vars

\* ------------------------------------------- the store called directly
\* Records a caller can pass to the store.
StoreIds == {ToString(t) : t \in 0..MaxId}
StoreRecords ==
    {VideoItem(id, outputPath("video_0"), name, "", 5, 0, thumbnailPath(0)) :
        id \in StoreIds, name \in {"Clip", "Trip"}}

Last(s) == s[Len(s)]

StoreCall(op, arg) ==
    /\ Len(calls) < MaxCalls
    /\ calls' = Append(calls, [op |-> op, arg |-> arg])
    /\ UNCHANGED <<clock, wf, isLoading, error, cropCurrent, editCurrent,
                   selectedVideoUri, mirror, ui>>

StoreAdd(video) ==
    /\ StoreCall("addVideo", video)
    /\ videos' = addVideo(videos, video)

StoreUpdate(video) ==
    /\ StoreCall("updateVideo", video)
    /\ videos' = updateVideo(videos, video)

StoreRemove(id) ==
    /\ StoreCall("removeVideo", id)
    /\ videos' = removeVideo(videos, id)

\* getVideoById(id) called by a caller: the history keeps what it returned.
StoreGet(id) ==
    /\ Len(calls) < MaxCalls
    /\ calls' = Append(calls, [op |-> "getVideoById", arg |-> id,
                                 result |-> getVideoById(videos, id)])
    /\ UNCHANGED <<videos, clock, wf, isLoading, error, cropCurrent,
                   editCurrent, selectedVideoUri, mirror, ui>>

NextStore ==
    \/ \E video \in StoreRecords : StoreAdd(video)
    \/ \E video \in StoreRecords : StoreUpdate(video)
    \/ \E id \in StoreIds : StoreRemove(id)
    \/ \E id \in StoreIds : StoreGet(id)

SpecStore == Init /\ [][NextStore]_vars

\* ------------------------------------------------- the durable mirror
\* SpecPersist follows the store under the persist middleware once the
\* snapshot load of a first launch is over (nothing stored, nothing in
\* memory).  The middleware and AsyncStorage are not part of the repository:
\* the write on every set is what persist(...) of videoStore.ts asks for, the
\* substrate is the one of sections 2 and 6 of the design: one blob under one
\* key, writes applied whole, one at a time, the last one wins.

\* Mutant of setItem: no write is issued while another is on its way.
setItemUnlessBusy(m, vs) ==
    IF m.writes # <<>> THEN m ELSE [m EXCEPT !.writes = Append(@, vs)]

\* persist: every set is followed by a write of the state as it is then; the
\* caller does not wait for it.
setItem(m, vs) == [m EXCEPT !.writes = Append(@, vs)]

\* A store operation through the middleware.
Persisted(op, arg, vs) ==
    /\ Len(calls) < MaxCalls
    /\ calls' = Append(calls, [op |-> op, arg |-> arg])
    /\ videos' = vs
    /\ mirror' = setItem(mirror, vs)
    /\ UNCHANGED <<clock, wf, isLoading, error, cropCurrent, editCurrent,
                   selectedVideoUri, ui>>

PersistedAdd(video) == Persisted("addVideo", video, addVideo(videos, video))

PersistedUpdate(video) ==
    Persisted("updateVideo", video, updateVideo(videos, video))

PersistedRemove(id) == Persisted("removeVideo", id, removeVideo(videos, id))

\* The substrate applies the oldest write on its way.
SubstrateWrites ==
    /\ mirror.writes # <<>>
    /\ mirror' = [durable |-> Head(mirror.writes),
                  writes |-> Tail(mirror.writes)]
    /\ UNCHANGED <<videos, clock, wf, isLoading, error, cropCurrent,
                   editCurrent, selectedVideoUri, calls, ui>>

NextPersist ==
    \/ \E video \in StoreRecords : PersistedAdd(video)
    \/ \E video \in StoreRecords : PersistedUpdate(video)
    \/ \E id \in StoreIds : PersistedRemove(id)
    \/ SubstrateWrites

\* The substrate does not fail: a write on its way is applied in the end.
SpecPersist == Init /\ [][NextPersist]_vars /\ WF_vars(SubstrateWrites)

\* ===================================================== the claims
Processing == {"awaitCrop", "awaitThumbnail"}

\* C1: no two records of the collection have the same id, also when create
\* workflows overlap and commit within the same clock tick.
UniqueIds ==
    \A i, j \in DOMAIN videos : i # j => videos[i].id # videos[j].id

\* C2: a create request made with the "Save Video" button whose title or
\* description fails the form validation never reaches the gateway: no
\* invocation started by the button is in flight with an invalid form.
SaveVideoValidatesBeforeGateway ==
    \A w \in W :
        (wf[w].origin = "handleCropVideo" /\ wf[w].trimCalls > 0
            /\ wf[w].pc \in Processing)
        => validateForm(wf[w].name, wf[w].description)

\* C3: when a create or edit workflow ends in SUCCESS, the record it exposes
\* as its result is in the collection at that moment.
SuccessResultInStore ==
    [][\A w \in W :
        (wf[w].pc # "success" /\ wf'[w].pc = "success")
        => \E i \in DOMAIN videos' : videos'[i] = wf'[w].result]_vars

\* C4: an edit workflow whose videoId matches no record ends in FAILED, exposes
\* a "not found" error as the hook's error, never invokes the gateway and
\* leaves the collection unchanged.
EditOfMissingIdExposesNotFound ==
    [][\A w \in W :
        (wf[w].pc = "idle" /\ wf'[w].kind = "edit"
            /\ getVideoById(videos, wf'[w].videoId) = Undefined)
        => /\ wf'[w].pc = "failed"
           /\ ExposedError' = "Video not found"
           /\ wf'[w].trimCalls = 0
           /\ wf'[w].thumbnailCalls = 0
           /\ videos' = videos]_vars

\* C5: a workflow whose trim or thumbnail generation fails ends in FAILED, and
\* no step of a workflow other than its step to SUCCESS changes the collection;
\* a workflow in FAILED takes no further step.
GatewayFailureLeavesStore ==
    [][\A w \in W :
        /\ (wf[w].pc \in Processing /\ wf'[w].mutationError # Null)
           => wf'[w].pc = "failed"
        /\ (wf'[w] # wf[w] /\ wf'[w].pc # "success") => videos' = videos
        /\ wf[w].pc = "failed" => wf'[w] = wf[w]]_vars

\* C5 witness: a thumbnail generation has failed, and its workflow is in
\* FAILED, while the collection holds a record.
GatewayFailureSeen ==
    /\ Len(videos) >= 1
    /\ \E w \in W : /\ wf[w].pc = "failed"
                    /\ wf[w].mutationError = "Thumbnail creation process failed"
                    /\ wf[w].thumbnailCalls = 1

\* C6: a create workflow that succeeds puts exactly one record at the front of
\* the collection, with duration = endTime - startTime, name and description
\* of the request, uri the trim output and a non-empty thumbnailUri that is the
\* thumbnail output; the records already there follow it unchanged, in order.
CreateSuccessPrependsRecord ==
    [][\A w \in W :
        (wf[w].kind = "create" /\ wf[w].pc = "awaitThumbnail"
            /\ wf'[w].pc = "success")
        => /\ Len(videos') = Len(videos) + 1
           /\ SubSeq(videos', 2, Len(videos')) = videos
           /\ videos'[1] = wf'[w].result
           /\ videos'[1].duration = wf[w].endTime - wf[w].startTime
           /\ videos'[1].name = wf[w].name
           /\ videos'[1].description = wf[w].description
           /\ videos'[1].uri = wf[w].croppedVideoUri
           /\ videos'[1].uri = outputPath(wf[w].outputFileName)
           /\ videos'[1].thumbnailUri = wf[w].thumbnailUri
           /\ Truthy(videos'[1].thumbnailUri)]_vars

\* C6 witness: a create workflow has succeeded on a collection that already
\* held a record, with start 1 and end 3.
CreateSuccessSeen ==
    /\ Len(videos) >= 2
    /\ \E w \in W : /\ wf[w].kind = "create"
                    /\ wf[w].pc = "success"
                    /\ wf[w].result = videos[1]
                    /\ videos[1].duration = 2

\* C7: a successful edit workflow leaves the target record's id and createdAt
\* as they were, sets uri, name, description, duration and thumbnailUri to the
\* inputs and gateway outputs, and leaves the length of the collection, the
\* position of the record and every other record unchanged.
EditSuccessReplacesInPlace ==
    [][\A w \in W :
        (wf[w].kind = "edit" /\ wf[w].pc = "awaitThumbnail"
            /\ wf'[w].pc = "success")
        => /\ Len(videos') = Len(videos)
           /\ \E i \in DOMAIN videos :
                /\ videos[i].id = wf[w].videoId
                /\ videos'[i] =
                      VideoItem(videos[i].id, wf[w].croppedVideoUri, wf[w].name,
                                wf[w].description,
                                wf[w].endTime - wf[w].startTime,
                                videos[i].createdAt, wf[w].thumbnailUri)
                /\ \A j \in DOMAIN videos : j # i => videos'[j] = videos[j]]_vars

\* C8: for every id, the createdAt stored under that id in the collection is
\* the same after every step as before it, for as long as the id is there.
CreatedAtConstantPerId ==
    [][\A i \in DOMAIN videos, j \in DOMAIN videos' :
        videos[i].id = videos'[j].id
        => videos'[j].createdAt = videos[i].createdAt]_vars

\* ------------------------------------------------ claims on the store
AllAdds == \A k \in DOMAIN calls : calls[k].op = "addVideo"
DistinctAddedIds ==
    \A k, l \in DOMAIN calls : k # l => calls[k].arg.id # calls[l].arg.id

\* C9: from the empty collection, after n addVideo calls with pairwise
\* distinct ids the collection has length n and lists the records in reverse
\* call order.
AddsListNewestFirst ==
    (AllAdds /\ DistinctAddedIds)
    => /\ Len(videos) = Len(calls)
       /\ \A i \in DOMAIN videos : videos[i] = calls[Len(calls) + 1 - i].arg

\* C9 witness: MaxCalls addVideo calls with pairwise distinct ids were made.
DistinctAddsSeen ==
    /\ Len(calls) = MaxCalls
    /\ AllAdds
    /\ DistinctAddedIds

\* C10: updateVideo(r) with r.id in the collection puts r at the position of
\* the record with that id; the length is unchanged and every record with
\* another id keeps its content and position.
UpdateReplacesInPlace ==
    [][(/\ Len(calls') = Len(calls) + 1
        /\ Last(calls').op = "updateVideo"
        /\ \E i \in DOMAIN videos : videos[i].id = Last(calls').arg.id)
       => /\ Len(videos') = Len(videos)
          /\ \A i \in DOMAIN videos :
                videos'[i] = IF videos[i].id = Last(calls').arg.id
                             THEN Last(calls').arg
                             ELSE videos[i]]_vars

\* C10 witness: the last call was an updateVideo(r) that replaced, behind
\* another record, a record added earlier with r's id and another name.
UpdateInPlaceSeen ==
    /\ Len(calls) >= 3
    /\ Last(calls).op = "updateVideo"
    /\ \E i \in DOMAIN videos :
          /\ i >= 2
          /\ videos[i] = Last(calls).arg
          /\ videos[1].id # Last(calls).arg.id
    /\ \E k \in DOMAIN calls :
          /\ calls[k].op = "addVideo"
          /\ calls[k].arg.id = Last(calls).arg.id
          /\ calls[k].arg # Last(calls).arg

HasId(vs, id) == \E i \in DOMAIN vs : vs[i].id = id

\* C11: updateVideo(r) with r.id matching no record of the collection leaves
\* the collection as it was: same records, same order, r not inserted.
UpdateOfMissingIdLeavesStore ==
    [][(/\ Len(calls') = Len(calls) + 1
        /\ Last(calls').op = "updateVideo"
        /\ ~HasId(videos, Last(calls').arg.id))
       => videos' = videos]_vars

\* C11 witness: the last call was an updateVideo(r) on a collection of two
\* records, neither of which has r's id.
UpdateOfMissingIdSeen ==
    /\ Len(calls) = 3
    /\ calls[1].op = "addVideo"
    /\ calls[2].op = "addVideo"
    /\ calls[3].op = "updateVideo"
    /\ calls[3].arg.id \notin {calls[1].arg.id, calls[2].arg.id}
    /\ videos = <<calls[2].arg, calls[1].arg>>

\* C12: removeVideo(id) for an id in the collection, however the collection
\* was built, leaves a collection in which getVideoById(id) finds nothing.
RemoveThenGetFindsNothing ==
    [][(/\ Len(calls') = Len(calls) + 1
        /\ Last(calls').op = "removeVideo"
        /\ HasId(videos, Last(calls').arg))
       => getVideoById(videos', Last(calls').arg) = Undefined]_vars

\* C12 witness: removeVideo(id) was called on a collection that held two
\* records with that id.
RemoveOfRepeatedIdSeen ==
    /\ Len(calls) = 3
    /\ calls[1].op = "addVideo"
    /\ calls[2].op = "addVideo"
    /\ calls[3].op = "removeVideo"
    /\ calls[1].arg.id = calls[3].arg
    /\ calls[2].arg.id = calls[3].arg
    /\ videos = <<>>

\* C25: removeVideo(id) with an id that is not in the collection leaves the
\* collection as it was; with an id that is there it leaves exactly the
\* records of the other ids, each with its content, in their former order.
Kept(vs, id) == {i \in DOMAIN vs : vs[i].id # id}
KthKept(vs, id, k) ==
    CHOOSE i \in Kept(vs, id) : Cardinality({j \in Kept(vs, id) : j <= i}) = k
GetReturnsMatchOrUndefined ==
    [][(/\ Len(calls') = Len(calls) + 1
        /\ Last(calls').op = "getVideoById")
       => /\ videos' = videos
          /\ IF HasId(videos, Last(calls').arg)
             THEN /\ Last(calls').result # Undefined
                  /\ Last(calls').result.id = Last(calls').arg
                  /\ \E i \in DOMAIN videos : videos[i] = Last(calls').result
             ELSE Last(calls').result = Undefined
          /\ videos = <<>> => Last(calls').result = Undefined]_vars

\* C13 witness: getVideoById found nothing in a collection that holds a
\* record, after it had found the record of another id.
GetMissSeen ==
    /\ Len(calls) = 3
    /\ calls[1].op = "addVideo"
    /\ calls[2].op = "getVideoById"
    /\ calls[2].result = calls[1].arg
    /\ calls[3].op = "getVideoById"
    /\ calls[3].arg # calls[1].arg.id
    /\ calls[3].result = Undefined
    /\ Len(videos) = 1

\* --------------------------------------------- claims on the workflows
\* C14: every invocation goes IDLE -> PROCESSING -> SUCCESS or FAILED: once in
\* SUCCESS or FAILED it stays there, it never returns to IDLE or PROCESSING,
\* and no step of it other than its step to SUCCESS changes the collection.
\* An edit of an id that is not there enters PROCESSING and fails its lookup
\* within the one uninterrupted stretch that started it.
WorkflowFollowsStateMachine ==
    [][\A w \in W :
        /\ \/ Status(w)' = Status(w)
           \/ Status(w) = "IDLE" /\ Status(w)' = "PROCESSING"
           \/ Status(w) = "PROCESSING" /\ Status(w)' \in {"SUCCESS", "FAILED"}
           \/ /\ Status(w) = "IDLE" /\ Status(w)' = "FAILED"
              /\ wf'[w].kind = "edit"
              /\ wf'[w].mutationError = "Video not found"
        /\ (wf'[w] # wf[w] /\ Status(w)' # "SUCCESS") => videos' = videos
        /\ Status(w) \in {"SUCCESS", "FAILED"} => wf'[w] = wf[w]]_vars

\* C14 witness: one invocation has ended in SUCCESS and another, after its
\* trim succeeded, in FAILED.
SettledBothWaysSeen ==
    \E u, w \in W :
        /\ Status(u) = "SUCCESS"
        /\ Status(w) = "FAILED"
        /\ wf[w].thumbnailCalls = 1
        /\ Len(videos) >= 1

\* C15: the step on which an invocation fails (its trim, its thumbnail or the
\* lookup of the record to edit) leaves a non-empty message in the error the
\* hook returns, and the exception is caught: it does not reach the caller of
\* cropVideo / editVideo.
FailureExposedAndCaught ==
    [][\A w \in W :
        (Status(w) # "FAILED" /\ Status(w)' = "FAILED")
        => /\ Truthy(ExposedError')
           /\ Truthy(wf'[w].mutationError)
           /\ wf'[w].rejection = "caught"]_vars

\* C15 witness: an invocation has failed while a later invocation of the same
\* mutation, the one the mutation reports on, is still in PROCESSING.
FailureBesideProcessingSeen ==
    \E u, w \in W :
        /\ Status(w) = "FAILED"
        /\ wf[w].kind = "create"
        /\ cropCurrent = u
        /\ u # w
        /\ Status(u) = "PROCESSING"
        /\ Truthy(ExposedError)

\* C16: an invocation calls the gateway's trim at most once and its thumbnail
\* at most once; an invocation in FAILED takes no further step, and while it
\* is there the collection changes only by the success of another invocation
\* or by a removal the user asked for.
NoRetries ==
    [][\A w \in W :
        /\ wf'[w].trimCalls <= 1
        /\ wf'[w].thumbnailCalls <= 1
        /\ Status(w) = "FAILED"
           => /\ wf'[w] = wf[w]
              /\ videos' # videos
                 => \/ \E u \in W \ {w} :
                          Status(u) = "PROCESSING" /\ Status(u)' = "SUCCESS"
                    \/ \E id \in VideoIds : videos' = removeVideo(videos, id)]_vars

\* C16 witness: an invocation whose trim failed is in FAILED with one trim call
\* and no thumbnail call, and the clock has moved on since.
FailedTrimSeen ==
    \E w \in W :
        /\ Status(w) = "FAILED"
        /\ wf[w].mutationError = "Video trimming process failed"
        /\ wf[w].trimCalls = 1
        /\ wf[w].thumbnailCalls = 0
        /\ clock = MaxClock

\* C19: whatever create, edit and remove workflows have run, in whatever
\* order they completed, no record of the collection has a smaller createdAt
\* than a record that follows it.
NewestFirst ==
    \A i, j \in DOMAIN videos :
        i < j => videos[i].createdAt >= videos[j].createdAt

\* C19 witness: two creates requested at time 0 completed in the reverse of
\* the order they were requested in, the second at time 0, the first at 1.
OutOfOrderCreatesSeen ==
    /\ Len(videos) = 2
    /\ videos[1].uri = outputPath("video_0")
    /\ videos[1].createdAt = 1
    /\ videos[2].createdAt = 0
    /\ wf[1].kind = "create" /\ wf[1].result = videos[1]
    /\ wf[2].kind = "create" /\ wf[2].result = videos[2]

\* C20: an invocation in PROCESSING changes only by the result of the gateway
\* call it awaits (the trimmed file or the trim's error, the committed record
\* or the thumbnail's error): the passing of time and other requests leave it
\* in PROCESSING.  When every gateway call returns, every invocation in
\* PROCESSING reaches SUCCESS or FAILED with the loading flag lowered.
ProcessingEndsWithGateway ==
    /\ [][\A w \in W :
            (Status(w) = "PROCESSING" /\ wf'[w] # wf[w])
            => IF wf[w].pc = "awaitCrop"
               THEN \/ /\ wf'[w].pc = "awaitThumbnail"
                       /\ wf'[w].croppedVideoUri = outputPath(wf[w].outputFileName)
                    \/ /\ wf'[w].pc = "failed"
                       /\ wf'[w].mutationError = "Video trimming process failed"
               ELSE \/ /\ wf'[w].pc = "success"
                       /\ wf'[w].result.thumbnailUri = wf[w].thumbnailUri
                    \/ /\ wf'[w].pc = "failed"
                       /\ wf'[w].mutationError = "Thumbnail creation process failed"]_vars
    /\ \A w \in W :
          (Status(w) = "PROCESSING")
          ~> (Status(w) \in {"SUCCESS", "FAILED"} /\ ~isLoading)

\* C20 witness: an edit started from the edit screen has reached SUCCESS, the
\* loading flag is down and time has passed since the start.
EditEndedSeen ==
    \E w \in W :
        /\ wf[w].origin = "handleUpdateVideo"
        /\ Status(w) = "SUCCESS"
        /\ wf[w].result.uri = outputPath("video_edit_0")
        /\ ~isLoading
        /\ clock = MaxClock

\* C22: an invocation started from the create screen is started while a video
\* is selected and gets its locator; one started from the edit screen is
\* started while the collection holds a record for the screen's videoId and
\* gets that record's locator; either locator is non-empty and the invocation
\* enters PROCESSING.
RequestHasSource ==
    [][\A w \in W :
        (wf[w].pc = "idle" /\ wf'[w].pc # "idle")
        => CASE wf'[w].origin = "handleCropVideo" ->
                  /\ Truthy(selectedVideoUri)
                  /\ wf'[w].videoUri = selectedVideoUri
                  /\ Status(w)' = "PROCESSING"
             [] wf'[w].origin = "handleUpdateVideo" ->
                  /\ getVideoById(videos, wf'[w].videoId) # Undefined
                  /\ wf'[w].videoUri = getVideoById(videos, wf'[w].videoId).uri
                  /\ Truthy(wf'[w].videoUri)
                  /\ Status(w)' = "PROCESSING"
             [] OTHER -> TRUE]_vars

\* C22 witness: an invocation started from the create screen has made a
\* record, and one started from the edit screen is in PROCESSING with the
\* locator of that record.
BothScreensStartedSeen ==
    \E u, w \in W :
        /\ wf[u].origin = "handleCropVideo"
        /\ wf[u].pc = "success"
        /\ wf[w].origin = "handleUpdateVideo"
        /\ wf[w].pc = "awaitCrop"
        /\ wf[w].videoUri = wf[u].result.uri

\* C26: generateThumbnail is called only on the step on which the trim of the
\* invocation succeeds, with the trimmed file as its input; the collection is
\* changed by an invocation only on its step from the awaited thumbnail to
\* SUCCESS, after one trim and one thumbnail call; an invocation whose trim
\* failed has made no thumbnail call.
TrimThenThumbnailThenCommit ==
    [][\A w \in W :
        /\ wf'[w].thumbnailCalls # wf[w].thumbnailCalls
           => /\ wf[w].pc = "awaitCrop"
              /\ wf[w].trimCalls = 1
              /\ wf'[w].pc = "awaitThumbnail"
              /\ wf'[w].croppedVideoUri = outputPath(wf[w].outputFileName)
              /\ wf'[w].thumbnailInput = wf'[w].croppedVideoUri
        /\ (wf'[w] # wf[w] /\ videos' # videos)
           => /\ wf[w].pc = "awaitThumbnail"
              /\ wf[w].trimCalls = 1
              /\ wf[w].thumbnailCalls = 1
              /\ wf'[w].pc = "success"
        /\ wf'[w].pc = "success" => wf[w].pc \in {"awaitThumbnail", "success"}
        /\ wf'[w].mutationError = "Video trimming process failed"
           => wf'[w].thumbnailCalls = 0]_vars

\* C26 witness: one invocation has committed its record after its two gateway
\* calls and another has failed in its trim.
CommitAndTrimFailureSeen ==
    \E u, w \in W :
        /\ wf[u].pc = "success"
        /\ wf[u].trimCalls = 1
        /\ wf[u].thumbnailCalls = 1
        /\ \E i \in DOMAIN videos : videos[i] = wf[u].result
        /\ wf[w].mutationError = "Video trimming process failed"
        /\ wf[w].thumbnailCalls = 0

\* C27: while an invocation of the hook is in PROCESSING the isLoading the
\* hook returns is true, also when another invocation that overlapped with it
\* has ended.
LoadingWhileProcessing ==
    (\E w \in W : Status(w) = "PROCESSING") => ExposedIsLoading

\* C28: no two invocations in PROCESSING write the same trimmed file or the
\* same thumbnail file, and no two records of the collection share their uri
\* or their thumbnailUri.
DistinctOutputFiles ==
    /\ \A u, w \in W :
          (u # w /\ Status(u) = "PROCESSING" /\ Status(w) = "PROCESSING")
          => /\ outputPath(wf[u].outputFileName) # outputPath(wf[w].outputFileName)
             /\ (wf[u].thumbnailUri # Null /\ wf[w].thumbnailUri # Null)
                => wf[u].thumbnailUri # wf[w].thumbnailUri
    /\ \A i, j \in DOMAIN videos :
          i # j => /\ videos[i].uri # videos[j].uri
                   /\ videos[i].thumbnailUri # videos[j].thumbnailUri

\* C29: the step on which an invocation is accepted leaves the error the hook
\* returns empty, and so does the step on which an invocation ends in
\* SUCCESS, whichever kind of invocation failed before.
ErrorClearedOnAcceptAndSuccess ==
    [][\A w \in W :
        /\ (Status(w) = "IDLE" /\ Status(w)' = "PROCESSING")
           => ~Truthy(ExposedError')
        /\ (Status(w) = "PROCESSING" /\ Status(w)' = "SUCCESS")
           => ~Truthy(ExposedError')]_vars

\* ------------------------------------------------- claims on the screens
\* C21: an invocation started by a screen carries the range the screen has
\* got from its trimmer, whose end is not before its start; the step on which
\* an invocation commits gives the record it writes (the new one, or every
\* record with the id it edits) the duration end - start of its request and
\* leaves the duration of every other record alone; no other step changes
\* the collection, and no duration in it is negative.
DurationOfLastWrite ==
    [][/\ \A w \in W :
            /\ (wf[w].pc = "idle" /\ wf'[w].pc # "idle")
               => /\ wf'[w].startTime = ui.startTime
                  /\ wf'[w].endTime = ui.endTime
                  /\ wf'[w].endTime - wf'[w].startTime >= 0
            /\ (wf[w].pc = "awaitThumbnail" /\ wf'[w].pc = "success")
               => IF wf[w].kind = "create"
                  THEN /\ Len(videos') = Len(videos) + 1
                       /\ videos'[1].duration = wf[w].endTime - wf[w].startTime
                       /\ \A i \in DOMAIN videos :
                             videos'[i + 1].duration = videos[i].duration
                  ELSE /\ Len(videos') = Len(videos)
                       /\ \A i \in DOMAIN videos :
                             videos'[i].duration =
                                IF videos[i].id = wf[w].videoId
                                THEN wf[w].endTime - wf[w].startTime
                                ELSE videos[i].duration
       /\ (\A w \in W : ~(wf[w].pc = "awaitThumbnail" /\ wf'[w].pc = "success"))
          => videos' = videos
       /\ \A i \in DOMAIN videos' : videos'[i].duration >= 0]_vars

\* C21 witness: a create has written a record of half a second, the whole of
\* a video that short, and an edit has given the stored record of five
\* seconds a duration of three.
TrimmedDurationsStoredSeen ==
    \E u, w \in W :
        /\ wf[u].kind = "create"
        /\ wf[u].pc = "success"
        /\ wf[u].result.duration = 1
        /\ wf[w].kind = "edit"
        /\ wf[w].pc = "success"
        /\ wf[w].result.duration = Seconds(3)
        /\ \E i \in DOMAIN videos :
              /\ videos[i] = wf[w].result
              /\ videos[i].id = StoredVideos[2].id
        /\ StoredVideos[2].duration = Seconds(5)

\* C23: the range a screen has got from its trimmer, from the mount on, after
\* the duration of any video has arrived and after any moves of the sliders,
\* is at least one and at most five seconds long.
ReportedRangeWithinLimits ==
    ui.step \in {"trim", "metadata"}
    => /\ ui.endTime - ui.startTime >= Seconds(MinClip)
       /\ ui.endTime - ui.startTime <= Seconds(MaxClip)

LastEditWinsWhole ==
    [][/\ \A w \in W :
            (wf[w].kind = "edit" /\ wf[w].pc = "awaitThumbnail"
                /\ wf'[w].pc = "success")
            => /\ Len(videos') = Len(videos)
               /\ \A i \in DOMAIN videos :
                     videos'[i] =
                        IF videos[i].id = wf[w].videoId
                        THEN VideoItem(videos[i].id, wf[w].croppedVideoUri,
                                       wf[w].name, wf[w].description,
                                       wf[w].endTime - wf[w].startTime,
                                       videos[i].createdAt, wf[w].thumbnailUri)
                        ELSE videos[i]
               /\ wf'[w].result \in {videos'[i] : i \in DOMAIN videos'}
       /\ (\A w \in W : ~(wf[w].pc = "awaitThumbnail" /\ wf'[w].pc = "success"))
          => videos' = videos]_vars

\* C30 witness: two edits of the second record, the later one started before
\* the thumbnail of the earlier one was made, have both ended in SUCCESS with
\* different names and locators, and the record stored is the one the later
\* edit returned.
OverlappingEditsCommittedSeen ==
    \E u, w \in W :
        /\ wf[u].kind = "edit" /\ wf[w].kind = "edit"
        /\ wf[u].pc = "success" /\ wf[w].pc = "success"
        /\ wf[u].videoId = wf[w].videoId
        /\ wf[u].result.thumbnailUri = thumbnailPath(1)
        /\ wf[w].result.uri = outputPath("video_edit_0")
        /\ wf[u].result.uri # wf[w].result.uri
        /\ wf[u].result.name # wf[w].result.name
        /\ Len(videos) = Len(StoredVideos)
        /\ videos[2] = wf[w].result
        /\ videos[1] = StoredVideos[1]

\* -------------------------------------------------- claims on the picker
PickStep == Len(calls') = Len(calls) + 1 /\ Last(calls').op = "pickVideo"

\* C17 as stated: when permission is denied, the user cancels or the picker
\* throws, pickVideo returns no locator, the hook's error is set, no workflow
\* is started (invocations, collection and selected locator are as before),
\* and after a denial the picker was not launched.
PickFailureSurfacesError ==
    [][(PickStep /\ Last(calls').outcome # "picked")
       => /\ Last(calls').result = Null
          /\ Truthy(ExposedError')
          /\ wf' = wf
          /\ videos' = videos
          /\ selectedVideoUri' = selectedVideoUri
          /\ Last(calls').outcome = "denied" => ~Last(calls').launched]_vars

\* C17 amended: as above, but the hook's error is set only after a denial or
\* an exception; after a cancel pickVideo leaves the error as it was.
PickFailureStartsNothing ==
    [][(PickStep /\ Last(calls').outcome # "picked")
       => /\ Last(calls').result = Null
          /\ IF Last(calls').outcome = "canceled"
             THEN error' = error
             ELSE Truthy(error') /\ Truthy(ExposedError')
          /\ wf' = wf
          /\ videos' = videos
          /\ selectedVideoUri' = selectedVideoUri
          /\ Last(calls').outcome = "denied" => ~Last(calls').launched]_vars

\* C17 witness: a denial with the picker not launched was followed by a
\* cancel, and no invocation has been started.
DenialThenCancelSeen ==
    /\ Len(calls) = 2
    /\ calls[1].outcome = "denied"
    /\ ~calls[1].launched
    /\ calls[2].outcome = "canceled"
    /\ error = "Permission to access videos was denied"
    /\ selectedVideoUri = Null
    /\ \A w \in W : Status(w) = "IDLE"

====
